---------------------------- MODULE Spec2Model ----------------------------
(***************************************************************************)
(* A model of the TPL (Photoshop tool preset) decoder of TPLParserJS:      *)
(* src/src/utils.ts (the decode steps) and src/src/tplReader.ts (readTool  *)
(* and readTpl).                                                           *)
(*                                                                         *)
(* A buffer is a sequence of bytes 0..255; offsets are 0-based as in the   *)
(* source.  A string is a sequence of character codes.  A JavaScript       *)
(* number is a natural number, or NaN.  Every call of the source is a      *)
(* frame on `stack`; a frame that returns leaves its result in `ret`.      *)
(***************************************************************************)
EXTENDS Integers, Sequences, FiniteSets, TLC

VARIABLES
    file,     \* the Buffer being decoded
    stack,    \* the call stack: one frame per active function call
    ret,      \* the last return: [fn, from, value, offset]
    status,   \* "idle" | "running" | "done" | "threw"
    entry,    \* the call made on the buffer: [fn, offset]
    called    \* the names of the functions entered so far

vars == <<file, stack, ret, status, entry, called>>

---------------------------------------------------------------------------
(* Bounds of the model *)

\* how far past the end of the buffer a direct call may start
MaxPad == 2
\* how many bytes past the end of the buffer the unbounded scan is followed
MaxOverrun == 2
\* numbers at or above Big are represented by Big: Big is far past the end of
\* every buffer of the model, so every slice and every comparison against a
\* buffer length is the one the exact number gives
Big == 1000000

---------------------------------------------------------------------------
(* JavaScript numbers, Buffer slices and strings *)

\* parseInt("", 16), and every sum with it
NaN == -1

Min(a, b) == IF a <= b THEN a ELSE b

\* a + b on numbers
Add(a, b) == IF a = NaN \/ b = NaN THEN NaN ELSE Min(a + b, Big)

\* a * 2 on numbers
Twice(a) == IF a = NaN THEN NaN ELSE Min(2 * a, Big)

\* ToIntegerOrInfinity of a slice bound, clamped to the buffer: NaN is 0
ClampIndex(f, n) == IF n = NaN THEN 0 ELSE Min(n, Len(f))

\* file.subarray(start, end)
Subarray(f, start, end) ==
    LET s == ClampIndex(f, start)
        e == ClampIndex(f, end)
    IN  IF e <= s THEN <<>> ELSE SubSeq(f, s + 1, e)

\* buf.toString("ascii"): the highest bit of every byte is unset
Ascii(bytes) == [i \in 1..Len(bytes) |-> bytes[i] % 128]

\* parseInt(buf.toString("hex"), 16): big-endian, NaN for the empty slice
RECURSIVE HexValue(_)
HexValue(bytes) ==
    IF Len(bytes) = 0 THEN 0
    ELSE Min(256 * HexValue(SubSeq(bytes, 1, Len(bytes) - 1)) + bytes[Len(bytes)], Big)

ParseHex(bytes) == IF Len(bytes) = 0 THEN NaN ELSE HexValue(bytes)

\* str.toLowerCase() on ASCII text
ToLowerCase(s) == [i \in 1..Len(s) |-> IF s[i] >= 65 /\ s[i] <= 90 THEN s[i] + 32 ELSE s[i]]

\* the characters String.prototype.trim removes, among the codes 0..127
IsWhiteSpace(c) == c \in {9, 10, 11, 12, 13, 32}

RECURSIVE TrimStart(_)
TrimStart(s) ==
    IF Len(s) > 0 /\ IsWhiteSpace(s[1]) THEN TrimStart(Tail(s)) ELSE s

RECURSIVE TrimEnd(_)
TrimEnd(s) ==
    IF Len(s) > 0 /\ IsWhiteSpace(s[Len(s)]) THEN TrimEnd(SubSeq(s, 1, Len(s) - 1)) ELSE s

\* str.trim()
Trim(s) == TrimEnd(TrimStart(s))

\* str.endsWith(suffix)
EndsWith(s, suffix) ==
    /\ Len(suffix) <= Len(s)
    /\ SubSeq(s, Len(s) - Len(suffix) + 1, Len(s)) = suffix

\* str.slice(0, -n)
SliceHead(s, n) == IF Len(s) <= n THEN <<>> ELSE SubSeq(s, 1, Len(s) - n)

\* str.slice(-n)
SliceTail(s, n) == IF Len(s) <= n THEN s ELSE SubSeq(s, Len(s) - n + 1, Len(s))

\* str.replace(/\x00/g, "")
RECURSIVE StripNul(_)
StripNul(s) ==
    IF Len(s) = 0 THEN <<>>
    ELSE IF s[1] = 0 THEN StripNul(Tail(s)) ELSE <<s[1]>> \o StripNul(Tail(s))

\* str.split("=").pop(): the text after the last "=" (code 61)
RECURSIVE AfterLastEq(_)
AfterLastEq(s) ==
    IF \E i \in 1..Len(s) : s[i] = 61
    THEN AfterLastEq(SubSeq(s, (CHOOSE i \in 1..Len(s) : s[i] = 61) + 1, Len(s)))
    ELSE s

\* buf.toString("hex"): two hex digits per byte
RECURSIVE HexDigits(_)
HexDigits(bytes) ==
    IF Len(bytes) = 0 THEN <<>>
    ELSE <<bytes[1] \div 16, bytes[1] % 16>> \o HexDigits(Tail(bytes))

\* (hex.match(/00/g) || []).length: the matches of "00" in the hex text, left
\* to right, none overlapping another
RECURSIVE CountDoubleZero(_)
CountDoubleZero(h) ==
    IF Len(h) < 2 THEN 0
    ELSE IF h[1] = 0 /\ h[2] = 0 THEN 1 + CountDoubleZero(SubSeq(h, 3, Len(h)))
    ELSE CountDoubleZero(Tail(h))

\* i.toString() for a natural number: its decimal digits as character codes
RECURSIVE NumToString(_)
NumToString(i) ==
    IF i < 10 THEN <<48 + i>> ELSE NumToString(i \div 10) \o <<48 + (i % 10)>>

---------------------------------------------------------------------------
(* The string literals of the source, as character codes *)

\* "8btp"
s_8btp == <<56, 98, 116, 112>>
\* "8bim"
s_8bim == <<56, 98, 105, 109>>
\* "8BIMtptp"
s_8BIMtptp == <<56, 66, 73, 77, 116, 112, 116, 112>>
\* "null"
s_null == <<110, 117, 108, 108>>
\* "Grad"
s_Grad == <<71, 114, 97, 100>>
\* "Objc"
s_Objc == <<79, 98, 106, 99>>
\* "VlLs"
s_VlLs == <<86, 108, 76, 115>>
\* "doub"
s_doub == <<100, 111, 117, 98>>
\* "UntF"
s_UntF == <<85, 110, 116, 70>>
\* "TEXT"
s_TEXT == <<84, 69, 88, 84>>
\* "enum"
s_enum == <<101, 110, 117, 109>>
\* "long"
s_long == <<108, 111, 110, 103>>
\* "comp"
s_comp == <<99, 111, 109, 112>>
\* "bool"
s_bool == <<98, 111, 111, 108>>
\* "type"
s_type == <<116, 121, 112, 101>>
\* "GlbC"
s_GlbC == <<71, 108, 98, 67>>
\* "obj "
s_obj == <<111, 98, 106, 32>>
\* "alis"
s_alis == <<97, 108, 105, 115>>
\* "tdta"
s_tdta == <<116, 100, 116, 97>>
\* "GlbO"
s_GlbO == <<71, 108, 98, 79>>
\* "dou"
s_dou == <<100, 111, 117>>
\* "constructor"
s_constructor == <<99, 111, 110, 115, 116, 114, 117, 99, 116, 111, 114>>
\* "valueOf"
s_valueOf == <<118, 97, 108, 117, 101, 79, 102>>

---------------------------------------------------------------------------
(* utils.ts: the decode steps that call nothing else *)

\* extractLabel(file, offset): [label, newOffset]
extractLabel(f, offset) ==
    LET labelLength == ParseHex(Subarray(f, offset, Add(offset, 4)))
        o4 == Add(offset, 4)
    IN  IF labelLength = 0
        THEN [value |-> Subarray(f, o4, Add(o4, 4)), offset |-> Add(o4, 4)]
        ELSE [value |-> Subarray(f, o4, Add(o4, labelLength)),
              offset |-> Add(o4, labelLength)]

\* extractBoolean(file, offset): Boolean(NaN) and Boolean(0) are false
extractBoolean(f, offset) ==
    LET n == ParseHex(Subarray(f, offset, Add(offset, 1)))
    IN  [value |-> (n # NaN /\ n # 0), offset |-> Add(offset, 1)]

\* extractEnum(file, offset)
extractEnum(f, offset) ==
    LET len1 == ParseHex(Subarray(f, offset, Add(offset, 4)))
        o1 == Add(offset, 4)
        classIdLength == IF len1 = 0 THEN 4 ELSE len1
        classId == Ascii(Subarray(f, o1, Add(o1, classIdLength)))
        o2 == Add(o1, classIdLength)
        len2 == ParseHex(Subarray(f, o2, Add(o2, 4)))
        o3 == Add(o2, 4)
        valueLength == IF len2 = 0 THEN 4 ELSE len2
        value == Ascii(Subarray(f, o3, Add(o3, valueLength)))
    IN  [value |-> [classId |-> classId, value |-> value],
         offset |-> Add(o3, valueLength)]

\* extractDouble(file, offset): the double is kept as the bytes that encode it
extractDouble(f, offset) ==
    [value |-> Subarray(f, offset, Add(offset, 8)), offset |-> Add(offset, 8)]

\* extractUnitFloat(file, offset)
extractUnitFloat(f, offset) ==
    LET unit == Ascii(Subarray(f, offset, Add(offset, 4)))
        o4 == Add(offset, 4)
    IN  [value |-> [unit |-> unit, value |-> Subarray(f, o4, Add(o4, 8))],
         offset |-> Add(o4, 8)]

\* extractInteger(file, offset)
extractInteger(f, offset) ==
    [value |-> ParseHex(Subarray(f, offset, Add(offset, 4))), offset |-> Add(offset, 4)]

\* extractLargeInteger(file, offset)
extractLargeInteger(f, offset) ==
    [value |-> ParseHex(Subarray(f, offset, Add(offset, 8))), offset |-> Add(offset, 8)]

\* validateTplHeader(file, offset): [isValid, newOffset]
validateTplHeader(f, offset) ==
    LET headerSignature == ToLowerCase(Ascii(Subarray(f, offset, Add(offset, 4))))
        o4 == Add(offset, 4)
        o12 == Add(o4, 8)
        photoshopSignature == ToLowerCase(Ascii(Subarray(f, o12, Add(o12, 4))))
        o16 == Add(o12, 4)
    IN  IF headerSignature # s_8btp THEN [value |-> FALSE, offset |-> o4]
        ELSE IF photoshopSignature # s_8bim THEN [value |-> FALSE, offset |-> o16]
        ELSE [value |-> TRUE, offset |-> o16]

\* file.lastIndexOf(needle): the search runs from the last byte offset down
RECURSIVE LastIndexFrom(_, _, _)
LastIndexFrom(f, needle, p) ==
    IF p < 0 THEN -1
    ELSE IF Subarray(f, p, p + Len(needle)) = needle THEN p
    ELSE LastIndexFrom(f, needle, p - 1)

LastIndexOf(f, needle) == LastIndexFrom(f, needle, Len(f) - Len(needle))

\* file.indexOf(needle): the search runs from offset 0 up
RECURSIVE FirstIndexFrom(_, _, _)
FirstIndexFrom(f, needle, p) ==
    IF p + Len(needle) > Len(f) THEN -1
    ELSE IF Subarray(f, p, p + Len(needle)) = needle THEN p
    ELSE FirstIndexFrom(f, needle, p + 1)

\* moveToToolDataSection with the first occurrence for the last
moveToToolDataSection_First(f) ==
    LET firstOccurrencePos == FirstIndexFrom(f, s_8BIMtptp, 0)
    IN  IF firstOccurrencePos # -1
        THEN [value |-> TRUE, offset |-> firstOccurrencePos + 16]
        ELSE [value |-> FALSE, offset |-> 0]

\* moveToToolDataSection(file): [moved, offset]
moveToToolDataSection(f) ==
    LET lastOccurrencePos == LastIndexOf(f, s_8BIMtptp)
    IN  IF lastOccurrencePos # -1
        THEN [value |-> TRUE, offset |-> lastOccurrencePos + 16]
        ELSE [value |-> FALSE, offset |-> 0]

\* the tags of typeHandlers, and the function each one calls
TypeHandler(propertyType) ==
    CASE propertyType = s_Objc -> "extractObjectClass"
      [] propertyType = s_VlLs -> "extractList"
      [] propertyType = s_doub -> "extractDouble"
      [] propertyType = s_UntF -> "extractUnitFloat"
      [] propertyType = s_TEXT -> "extractText"
      [] propertyType = s_enum -> "extractEnum"
      [] propertyType = s_long -> "extractInteger"
      [] propertyType = s_comp -> "extractLargeInteger"
      [] propertyType = s_bool -> "extractBoolean"
      [] OTHER -> "none"

\* the tags extractOsTypeValue recognizes and does not decode
UnsupportedTypes == {s_type, s_GlbC, s_obj, s_alis, s_tdta}

\* the placeholders of extractUntilPlaceholder, in the order of the source
placeholders ==
    <<s_GlbO, s_Objc, s_VlLs, s_dou, s_UntF, s_TEXT, s_enum, s_long, s_comp,
      s_bool, s_type, s_GlbC, s_obj, s_alis, s_tdta>>

---------------------------------------------------------------------------
(* The call stack *)

\* a frame: the function, its position, the offset it was given (from), its
\* cursor and its local variables
NewFrame(fn, offset, name, type) ==
    [fn |-> fn, pc |-> "start", from |-> offset, offset |-> offset,
     name |-> name, type |-> type, count |-> 0, i |-> 0, length |-> 0,
     properties |-> <<>>, tpl |-> <<>>]

Top == stack[Len(stack)]

At(fn, pc) ==
    /\ status = "running"
    /\ Len(stack) > 0
    /\ Top.fn = fn
    /\ Top.pc = pc

\* the running function moves on as frame `self`
Goto(self) ==
    /\ stack' = [stack EXCEPT ![Len(stack)] = self]
    /\ UNCHANGED <<file, ret, status, entry, called>>

\* the running function, left as frame `self`, calls `callee`
Call(self, callee) ==
    /\ stack' = [stack EXCEPT ![Len(stack)] = self] \o <<callee>>
    /\ called' = called \cup {callee.fn}
    /\ UNCHANGED <<file, ret, status, entry>>

\* the running function returns [value, offset] to its caller
Return(value, offset) ==
    /\ ret' = [fn |-> Top.fn, from |-> Top.from, value |-> value, offset |-> offset]
    /\ stack' = SubSeq(stack, 1, Len(stack) - 1)
    /\ status' = IF Len(stack) = 1 THEN "done" ELSE status
    /\ UNCHANGED <<file, entry, called>>

\* the running function throws: nothing of the source catches
Throw ==
    /\ status' = "threw"
    /\ UNCHANGED <<file, stack, ret, entry, called>>

---------------------------------------------------------------------------
(* utils.ts: the steps of the decode functions *)

ExtractLabel ==
    /\ At("extractLabel", "start")
    /\ LET r == extractLabel(file, Top.offset) IN Return(r.value, r.offset)

ExtractBoolean ==
    /\ At("extractBoolean", "start")
    /\ LET r == extractBoolean(file, Top.offset) IN Return(r.value, r.offset)

ExtractEnum ==
    /\ At("extractEnum", "start")
    /\ LET r == extractEnum(file, Top.offset) IN Return(r.value, r.offset)

\* struct.unpack(">d", slice) is a library call: on a slice shorter than 8
\* bytes it either throws or yields a value
ExtractDouble ==
    /\ At("extractDouble", "start")
    /\ LET r == extractDouble(file, Top.offset)
       IN  \/ Return(r.value, r.offset)
           \/ Len(r.value) < 8 /\ Throw

ExtractUnitFloat ==
    /\ At("extractUnitFloat", "start")
    /\ LET r == extractUnitFloat(file, Top.offset)
       IN  \/ Return(r.value, r.offset)
           \/ Len(r.value.value) < 8 /\ Throw

ExtractInteger ==
    /\ At("extractInteger", "start")
    /\ LET r == extractInteger(file, Top.offset) IN Return(r.value, r.offset)

ExtractLargeInteger ==
    /\ At("extractLargeInteger", "start")
    /\ LET r == extractLargeInteger(file, Top.offset) IN Return(r.value, r.offset)

ValidateTplHeader ==
    /\ At("validateTplHeader", "start")
    /\ LET r == validateTplHeader(file, Top.offset) IN Return(r.value, r.offset)

MoveToToolDataSection ==
    /\ At("moveToToolDataSection", "start")
    /\ LET r == moveToToolDataSection(file) IN Return(r.value, r.offset)

\* extractProperty: const [propertyName, newOffset] = extractLabel(file, offset)
ExtractProperty_Start ==
    /\ At("extractProperty", "start")
    /\ Call([Top EXCEPT !.pc = "label"],
            NewFrame("extractLabel", Top.offset, <<>>, <<>>))

\* extractProperty: the test of the name against "null"
ExtractProperty_Label ==
    /\ At("extractProperty", "label")
    /\ IF Ascii(ret.value) # s_null
       THEN Call([Top EXCEPT !.pc = "value", !.offset = ret.offset],
                 NewFrame("extractPropertyValue", ret.offset, ret.value, <<>>))
       ELSE Return(<<>>, ret.offset)

\* extractProperty: return extractPropertyValue(...)
ExtractProperty_Value ==
    /\ At("extractProperty", "value")
    /\ Return(ret.value, ret.offset)

\* extractPropertyValue: the type is read and extractOsTypeValue is called
\* with the trimmed name
ExtractPropertyValue_Start ==
    /\ At("extractPropertyValue", "start")
    /\ LET propertyType == Ascii(Subarray(file, Top.offset, Add(Top.offset, 4)))
           offset == Add(Top.offset, 4)
       IN  Call([Top EXCEPT !.pc = "os", !.offset = offset, !.type = propertyType],
                NewFrame("extractOsTypeValue", offset, Trim(Ascii(Top.name)), propertyType))

\* extractPropertyValue: {} for null, else { [name]: { type, value } }
ExtractPropertyValue_Wrap ==
    /\ At("extractPropertyValue", "os")
    /\ IF Len(ret.value) = 0
       THEN Return(<<>>, ret.offset)
       ELSE Return(<<[key |-> ret.value[1].name, type |-> ret.value[1].os_type,
                      value |-> ret.value[1].value]>>, ret.offset)

\* extractOsTypeValue: a handler, a tag that is not decoded, or the scan
ExtractOsTypeValue_Start ==
    /\ At("extractOsTypeValue", "start")
    /\ IF TypeHandler(Top.type) # "none"
       THEN Call([Top EXCEPT !.pc = "handler"],
                 NewFrame(TypeHandler(Top.type), Top.offset,
                          IF Top.type = s_Objc THEN Top.name ELSE <<>>, <<>>))
       ELSE IF Top.type \in UnsupportedTypes
       THEN Return(<<>>, Top.offset)
       ELSE Call([Top EXCEPT !.pc = "scan"],
                 NewFrame("extractUntilPlaceholder", Top.offset, Top.name \o Top.type, <<>>))

\* extractOsTypeValue: [{ name, os_type, value }, newOffset]
ExtractOsTypeValue_Handler ==
    /\ At("extractOsTypeValue", "handler")
    /\ Return(<<[name |-> Top.name, os_type |-> Top.type, value |-> ret.value]>>,
              ret.offset)

\* extractOsTypeValue: the call of itself with the name and type found
ExtractOsTypeValue_Scan ==
    /\ At("extractOsTypeValue", "scan")
    /\ Call([Top EXCEPT !.pc = "again"],
            NewFrame("extractOsTypeValue", ret.offset, ret.value.name, ret.value.type))

ExtractOsTypeValue_Again ==
    /\ At("extractOsTypeValue", "again")
    /\ Return(ret.value, ret.offset)

\* extractUntilPlaceholder: one turn of its while (true) loop; the text found
\* so far is kept in `name`.  Nothing in the loop looks at the length of the
\* buffer: past its end every slice is empty and the loop goes on (the model
\* follows it MaxOverrun bytes past the end).
ExtractUntilPlaceholder_Step ==
    /\ At("extractUntilPlaceholder", "start")
    /\ Top.offset = NaN \/ Top.offset < Len(file) + MaxOverrun
    /\ LET extractedText == Top.name \o Ascii(Subarray(file, Top.offset, Add(Top.offset, 1)))
           offset == Add(Top.offset, 1)
           placeholderLength == Len(placeholders[1])
       IN  IF \E k \in 1..Len(placeholders) : EndsWith(extractedText, placeholders[k])
           THEN Return([name |-> SliceHead(extractedText, placeholderLength),
                        type |-> SliceTail(extractedText, placeholderLength)], offset)
           ELSE Goto([Top EXCEPT !.name = extractedText, !.offset = offset])

\* extractObjectClass: the "Grad" case reads a text, every other name skips 6
\* bytes and reads a label
ExtractObjectClass_Start ==
    /\ At("extractObjectClass", "start")
    /\ IF Top.name = s_Grad
       THEN Call([Top EXCEPT !.pc = "grad"],
                 NewFrame("extractText", Top.offset, <<>>, <<>>))
       ELSE Call([Top EXCEPT !.pc = "label", !.offset = Add(Top.offset, 6)],
                 NewFrame("extractLabel", Add(Top.offset, 6), <<>>, <<>>))

ExtractObjectClass_Grad ==
    /\ At("extractObjectClass", "grad")
    /\ Goto([Top EXCEPT !.pc = "loop", !.offset = ret.offset, !.count = 4])

ExtractObjectClass_Label ==
    /\ At("extractObjectClass", "label")
    /\ Goto([Top EXCEPT !.pc = "loop",
                        !.count = ParseHex(Subarray(file, ret.offset, Add(ret.offset, 4))),
                        !.offset = Add(ret.offset, 4)])

\* extractObjectClass: for (let i = 0; i < propertyCount; i++)
ExtractObjectClass_Loop ==
    /\ At("extractObjectClass", "loop")
    /\ IF Top.count # NaN /\ Top.i < Top.count
       THEN Call([Top EXCEPT !.pc = "prop"],
                 NewFrame("extractProperty", Top.offset, <<>>, <<>>))
       ELSE Return(Top.properties, Top.offset)

ExtractObjectClass_Prop ==
    /\ At("extractObjectClass", "prop")
    /\ Goto([Top EXCEPT !.pc = "loop", !.properties = Append(@, ret.value),
                        !.offset = ret.offset, !.i = @ + 1])

\* extractText: the first length
ExtractText_Start ==
    /\ At("extractText", "start")
    /\ Goto([Top EXCEPT !.pc = "loop",
                        !.length = ParseHex(Subarray(file, Top.offset, Add(Top.offset, 4))),
                        !.offset = Add(Top.offset, 4)])

\* extractText: while (length === 0) rewinds 4 bytes and reads a property;
\* any other length (NaN too) leaves the loop and the text is returned
ExtractText_Loop ==
    /\ At("extractText", "loop")
    /\ IF Top.length = 0
       THEN Call([Top EXCEPT !.pc = "prop", !.offset = Top.offset - 4],
                 NewFrame("extractProperty", Top.offset - 4, <<>>, <<>>))
       ELSE LET end == Add(Top.offset, Twice(Top.length))
            IN  Return(StripNul(Ascii(Subarray(file, Top.offset, end))), end)

\* extractText: the length read again after the property, and its test
ExtractText_Prop ==
    /\ At("extractText", "prop")
    /\ LET length == ParseHex(Subarray(file, ret.offset, Add(ret.offset, 4)))
           offset == Add(ret.offset, 4)
           textHex == HexDigits(Subarray(file, offset, Add(offset, Twice(length))))
           numZeros == CountDoubleZero(textHex)
       IN  Goto([Top EXCEPT !.pc = "loop", !.offset = offset,
                            !.length = IF length = NaN \/ length = 0 THEN length
                                       ELSE IF numZeros = Add(length, 1) THEN length
                                       ELSE 0])

\* extractList: the count
ExtractList_Start ==
    /\ At("extractList", "start")
    /\ Goto([Top EXCEPT !.pc = "loop",
                        !.count = ParseHex(Subarray(file, Top.offset, Add(Top.offset, 4))),
                        !.offset = Add(Top.offset, 4)])

\* extractList: for (let i = 0; i < count; i++)
ExtractList_Loop ==
    /\ At("extractList", "loop")
    /\ IF Top.count # NaN /\ Top.i < Top.count
       THEN Call([Top EXCEPT !.pc = "elem"],
                 NewFrame("extractPropertyValue", Top.offset, NumToString(Top.i), <<>>))
       ELSE Return(Top.properties, Top.offset)

\* extractList: properties.push(property[iAsString]); an entry is <<>> for
\* undefined and <<[type, value]>> otherwise
ExtractList_Elem ==
    /\ At("extractList", "elem")
    /\ LET property == ret.value
           item == IF Len(property) = 1 /\ property[1].key = NumToString(Top.i)
                   THEN <<[type |-> property[1].type, value |-> property[1].value]>>
                   ELSE <<>>
       IN  Goto([Top EXCEPT !.pc = "loop", !.properties = Append(@, item),
                            !.offset = ret.offset, !.i = @ + 1])

---------------------------------------------------------------------------
(* tplReader.ts: readTool and readTpl *)

\* TPLData, an object: its own keys in insertion order, each with its tools
HasOwnKey(tpl, key) == \E j \in 1..Len(tpl) : tpl[j].key = key

\* names an object inherits from Object.prototype: tpl[name] is truthy for
\* them on an empty object, and is no array
InheritedKeys == {s_constructor, s_valueOf}

\* if (!tpl[toolType]) { tpl[toolType] = []; }
InitToolType(tpl, toolType) ==
    IF HasOwnKey(tpl, toolType) \/ toolType \in InheritedKeys
    THEN tpl
    ELSE Append(tpl, [key |-> toolType, tools |-> <<>>])

\* the tool put in front of the tools of its type instead of behind them
PushTool_Front(tpl, toolType, tool) ==
    [j \in 1..Len(tpl) |->
        IF tpl[j].key = toolType
        THEN [tpl[j] EXCEPT !.tools = <<tool>> \o @]
        ELSE tpl[j]]

\* tpl[toolType].push(tool)
PushTool(tpl, toolType, tool) ==
    [j \in 1..Len(tpl) |->
        IF tpl[j].key = toolType
        THEN [tpl[j] EXCEPT !.tools = Append(@, tool)]
        ELSE tpl[j]]

\* the name without the split at "="
ToolDisplayName_Whole(toolName) == toolName

\* name: toolName.split("=").pop() || ""
ToolDisplayName(toolName) == AfterLastEq(toolName)

\* readTool with the test for 4 bytes made before a record is read
ReadTool_Start_TestFirst ==
    /\ At("readTool", "start")
    /\ IF Len(Subarray(file, Top.offset, Add(Top.offset, 4))) # 4
       THEN Return(Top.tpl, Top.offset)
       ELSE Call([Top EXCEPT !.pc = "name"],
                 NewFrame("extractText", Top.offset, <<>>, <<>>))

\* readTool: the head of while (true): the tool name
ReadTool_Start ==
    /\ At("readTool", "start")
    /\ Call([Top EXCEPT !.pc = "name"],
            NewFrame("extractText", Top.offset, <<>>, <<>>))

\* readTool: 10 bytes are skipped and the tool type is read
ReadTool_Name ==
    /\ At("readTool", "name")
    /\ Call([Top EXCEPT !.pc = "type", !.name = ret.value, !.offset = Add(ret.offset, 10)],
            NewFrame("extractLabel", Add(ret.offset, 10), <<>>, <<>>))

\* readTool: the type key is created and the property count is read
ReadTool_Type ==
    /\ At("readTool", "type")
    /\ LET toolType == Trim(Ascii(ret.value))
       IN  Goto([Top EXCEPT !.pc = "props", !.type = toolType,
                            !.tpl = InitToolType(@, toolType),
                            !.count = ParseHex(Subarray(file, ret.offset, Add(ret.offset, 4))),
                            !.offset = Add(ret.offset, 4),
                            !.properties = <<>>, !.i = 0])

\* readTool: for (let i = 0; i < count; i++), then the tool is appended and
\* the loop ends unless 4 bytes are left
ReadTool_Props ==
    /\ At("readTool", "props")
    /\ IF Top.count # NaN /\ Top.i < Top.count
       THEN Call([Top EXCEPT !.pc = "prop"],
                 NewFrame("extractProperty", Top.offset, <<>>, <<>>))
       ELSE IF ~HasOwnKey(Top.tpl, Top.type)
       THEN Throw
       ELSE LET tpl == PushTool(Top.tpl, Top.type,
                                [name |-> ToolDisplayName(Top.name),
                                 properties |-> Top.properties])
            IN  IF Len(Subarray(file, Top.offset, Add(Top.offset, 4))) # 4
                THEN Return(tpl, Top.offset)
                ELSE Goto([Top EXCEPT !.pc = "start", !.tpl = tpl])

ReadTool_Prop ==
    /\ At("readTool", "prop")
    /\ Goto([Top EXCEPT !.pc = "props", !.properties = Append(@, ret.value),
                        !.offset = ret.offset, !.i = @ + 1])

\* readTpl: validateTplHeader(file, 0)
ReadTpl_Start ==
    /\ At("readTpl", "start")
    /\ Call([Top EXCEPT !.pc = "valid"],
            NewFrame("validateTplHeader", 0, <<>>, <<>>))

\* readTpl: if (!isValid) return {}
ReadTpl_Valid ==
    /\ At("readTpl", "valid")
    /\ IF ~ret.value
       THEN Return(<<>>, ret.offset)
       ELSE Call([Top EXCEPT !.pc = "moved", !.offset = ret.offset],
                 NewFrame("moveToToolDataSection", 0, <<>>, <<>>))

\* readTpl without the test of `moved`
ReadTpl_Moved_Unchecked ==
    /\ At("readTpl", "moved")
    /\ Call([Top EXCEPT !.pc = "tools"],
            NewFrame("readTool", ret.offset, <<>>, <<>>))

\* readTpl: if (!moved) return {}
ReadTpl_Moved ==
    /\ At("readTpl", "moved")
    /\ IF ~ret.value
       THEN Return(<<>>, Top.offset)
       ELSE Call([Top EXCEPT !.pc = "tools"],
                 NewFrame("readTool", ret.offset, <<>>, <<>>))

\* readTpl: return this.tplData
ReadTpl_Tools ==
    /\ At("readTpl", "tools")
    /\ Return(ret.value, Top.offset)

---------------------------------------------------------------------------
(* The buffers of the model *)

\* a 4-byte big-endian field holding n < 65536
U32(n) == <<0, 0, n \div 256, n % 256>>

\* n zero bytes
Zeros(n) == [i \in 1..n |-> 0]

\* text as 2-byte units, high byte 0
RECURSIVE Utf16(_)
Utf16(s) == IF Len(s) = 0 THEN <<>> ELSE <<0, s[1]>> \o Utf16(Tail(s))

\* a text field as the format writes it: the length counts the closing
\* 2-byte zero unit
TextField(s) == U32(Len(s) + 1) \o Utf16(s) \o <<0, 0>>

\* a label field: zero = TRUE writes the 4-byte label with a length of 0
LabelField(label, zero) == (IF zero THEN U32(0) ELSE U32(Len(label))) \o label

\* the bytes of "8BTP", "8btp", "8bTp", "xBTP", "8BIM", "8bim", "8BIX"
LBTP == <<56, 66, 84, 80>>
LBTPL == <<56, 98, 116, 112>>
LBTPM == <<56, 98, 84, 112>>
LXBTP == <<120, 66, 84, 80>>
LBIM == <<56, 66, 73, 77>>
LBIML == <<56, 98, 105, 109>>
LBIX == <<56, 66, 73, 88>>

\* the first and second signatures tried, right and wrong
Sig1s ==
    { LBTP, LBTPL, LBTPM, <<184, 66, 84, 80>>, LBIM, LXBTP }
Sig2s ==
    { LBIM, LBIML, <<56, 66, 201, 77>>, LBTP, LBIX }
Reserveds == { Zeros(8), <<1, 2, 3, 4, 5, 6, 7, 255>> }

Header(sig1, reserved, sig2) == sig1 \o reserved \o sig2

ValidHeader == Header(LBTP, Zeros(8), LBIM)

\* 16-byte headers, and every cut of a valid one
HeaderFiles ==
    { Header(a, r, b) : a \in Sig1s, r \in Reserveds, b \in Sig2s }
    \cup { SubSeq(ValidHeader, 1, n) : n \in 0..15 }

\* buffers made of markers, cut markers and other bytes
MarkerParts == { s_8BIMtptp, SubSeq(s_8BIMtptp, 1, 7), <<0>>, LBIM }
MarkerFiles ==
    { a \o b \o c \o d : a \in MarkerParts, b \in MarkerParts,
                         c \in MarkerParts \cup {<<>>}, d \in {<<>>, <<56>>} }

\* the concatenation of a sequence of byte sequences
RECURSIVE Concat(_)
Concat(parts) == IF Len(parts) = 0 THEN <<>> ELSE parts[1] \o Concat(Tail(parts))

\* labels and names used in the buffers
L_Brsh == <<66, 114, 115, 104>>
L_BrshSp == <<32, 66, 114, 32>>
L_B == <<66>>
L_Size == <<83, 105, 122, 101>>
L_SpNull == <<32, 110, 117, 108, 108>>
L_SzSp == <<83, 122, 32>>
L_a == <<97>>
L_xxxx == <<120, 120, 120, 120>>
L_DeqM == <<68, 61, 77>>
L_aeq == <<97, 61>>

\* one property: label, tag, payload
PropField(label, zero, tag, payload) == LabelField(label, zero) \o tag \o payload

\* one tool record: name text field, 10 bytes, type label, count, properties
ToolRecord(nameField, typeField, props) ==
    nameField \o Zeros(10) \o typeField \o U32(Len(props)) \o Concat(props)

\* the section start: the marker and the 8 bytes after it
Section == s_8BIMtptp \o <<0, 0, 0, 0, 0, 0, 0, 9>>

\* the parts of the well-formed buffers with one tool of one long property
WfHeaders == { ValidHeader, Header(LBTPL, <<1, 2, 3, 4, 5, 6, 7, 255>>, LBIML) }
WfMiddles == { <<>>, s_8BIMtptp \o <<1, 2, 3>> }
WfNames == { Utf16(L_DeqM) \o <<0, 0>>, <<65, 66>>, Utf16(L_aeq) \o <<0, 0>>, <<193, 0>> }
WfTypes == { <<L_Brsh, FALSE>>, <<L_Brsh, TRUE>>, <<L_BrshSp, FALSE>>,
             <<s_constructor, FALSE>>, <<L_B, FALSE>> }
WfProps == { <<L_Size, FALSE>>, <<L_Size, TRUE>>, <<s_null, TRUE>>,
             <<L_SpNull, FALSE>>, <<L_SzSp, FALSE>> }
WfValues == { 0, 42, 300 }

\* header, bytes, section start, and one tool record that ends the buffer:
\* a name text of Len(name) \div 2 units, 10 bytes, the type label T, a
\* count of 1, the property label P, "long" and the value v
WellFormed(h, m, name, T, P, v) ==
    h \o m \o Section
      \o ToolRecord(U32(Len(name) \div 2) \o name, LabelField(T[1], T[2]),
                    << PropField(P[1], P[2], s_long, U32(v)) >>)

WellFormedFiles ==
    { WellFormed(h, m, name, T, P, v) :
        h \in WfHeaders, m \in WfMiddles, name \in WfNames,
        T \in WfTypes, P \in WfProps, v \in WfValues }

\* encoded properties of every tag
P_long == PropField(L_Size, FALSE, s_long, U32(42))
P_null == LabelField(s_null, TRUE)
P_spnull == PropField(L_SpNull, FALSE, s_long, U32(7))
P_bool == PropField(L_a, FALSE, s_bool, <<1>>)
P_comp == PropField(L_a, FALSE, s_comp, <<0, 0, 0, 0, 0, 0, 1, 0>>)
P_doub == PropField(L_a, FALSE, s_doub, <<63, 240, 0, 0, 0, 0, 0, 0>>)
P_untf == PropField(L_a, FALSE, s_UntF, <<35, 80, 120, 108>> \o <<64, 0, 0, 0, 0, 0, 0, 0>>)
P_enum == PropField(L_a, FALSE, s_enum, LabelField(L_Brsh, TRUE) \o LabelField(L_SzSp, FALSE))
P_text == PropField(L_a, FALSE, s_TEXT, TextField(L_B))
P_tdta == PropField(L_a, FALSE, s_tdta, <<>>)
\* a name and tag that only the scan finds: "n" "ulll" "ong" gives null, long
P_scanNull == PropField(<<110>>, FALSE, <<117, 108, 108, 108>>, <<111, 110, 103>> \o U32(7))
\* a tag that is no tag, then "dou", then "long"
P_scanDou == PropField(L_a, FALSE, L_xxxx, s_dou \o s_long \o U32(7))
\* a tag that is no tag, then "GlbO", then "bool"
P_scanGlbO == PropField(L_a, FALSE, L_xxxx, s_GlbO \o s_bool \o <<1>>)
\* a tag that is no tag and no placeholder after it
P_scanNone == PropField(L_a, FALSE, L_xxxx, <<1, 2>>)
\* an object: 6 bytes, a class label, a count and its properties
P_objc == PropField(L_a, FALSE, s_Objc,
                    Zeros(6) \o LabelField(L_Brsh, TRUE) \o U32(2) \o P_bool \o P_null)
\* the "Grad" object: a text and 4 properties
P_grad == PropField(s_Grad, TRUE, s_Objc,
                    TextField(L_B) \o P_null \o P_bool \o P_null \o P_null)
\* a list: a count and its tagged values
P_list == PropField(L_a, FALSE, s_VlLs,
                    U32(3) \o s_long \o U32(5) \o s_tdta \o s_bool \o <<0>>)
\* a text behind a zero length: a property, then the length and the text
P_indirect == PropField(L_a, FALSE, s_TEXT,
                        LabelField(L_Brsh, TRUE) \o s_bool \o <<1>> \o TextField(L_B))
\* a text behind a zero length whose next length fails the test once
P_spurious == PropField(L_a, FALSE, s_TEXT,
                        LabelField(L_Brsh, TRUE) \o s_bool \o <<1>>
                        \o U32(1) \o L_B \o s_bool \o <<0>> \o TextField(L_B))

\* a list whose only tagged value has a tag that only the scan recovers
P_listScan == PropField(L_a, FALSE, s_VlLs,
                        U32(1) \o L_xxxx \o s_GlbO \o s_bool \o <<1>>)
\* a text behind a zero length whose next length is 2 and whose 4 bytes
\* 00 10 01 00 hold two zero bytes but read "00100100" in hex
P_hexZeros == PropField(L_a, FALSE, s_TEXT,
                        LabelField(L_Brsh, TRUE) \o s_bool \o <<1>>
                        \o U32(2) \o <<0, 16, 1, 0>>)

\* a well-formed buffer, the one every cut is taken of
WfSample == WellFormed(ValidHeader, <<>>, Utf16(L_DeqM) \o <<0, 0>>,
                       <<L_Brsh, FALSE>>, <<L_Size, FALSE>>, 42)

\* buffers with a valid header and a section that is cut, empty, holds
\* several tools, or holds properties of other tags
ToolFiles ==
    { SubSeq(WfSample, 1, n) : n \in 16..Len(WfSample) }
    \cup { ValidHeader \o Section \o ToolRecord(TextField(L_DeqM), LabelField(L_Brsh, FALSE), props)
                       \o ToolRecord(TextField(L_aeq), LabelField(T, FALSE), <<P_long>>) \o tail :
             props \in { <<>>, <<P_long, P_bool>>, <<P_null, P_tdta>>, <<P_objc>>, <<P_list>>,
                         <<P_indirect>>, <<P_scanNull>>, <<P_enum, P_text>> },
             T \in { L_Brsh, L_B },
             tail \in { <<>>, <<0, 0>> } }
    \cup { ValidHeader \o Section \o ToolRecord(TextField(L_DeqM), LabelField(L_Brsh, FALSE), <<P_scanNone>>) }

\* short buffers the decode steps are called on directly
Fragments ==
    { P_long, P_null, P_null \o P_long, P_spnull, P_bool, P_comp, P_doub, P_untf, P_enum, P_text,
      P_tdta, P_scanNull, P_scanDou, P_scanGlbO, P_scanNone, P_objc, P_grad, P_list,
      P_indirect, P_spurious, P_listScan, P_hexZeros }

\* how many bytes a fragment may lose at its end
MaxCut == 2

FragmentFiles ==
    { SubSeq(b, 1, Len(b) - cut) : b \in Fragments, cut \in 0..MaxCut }

Files == HeaderFiles \cup MarkerFiles \cup WellFormedFiles \cup ToolFiles \cup FragmentFiles

---------------------------------------------------------------------------
(* The calls made on a buffer *)

NoReturn == [fn |-> "none", from |-> 0, value |-> <<>>, offset |-> 0]

Init ==
    /\ file \in Files
    /\ stack = <<>>
    /\ ret = NoReturn
    /\ status = "idle"
    /\ entry = [fn |-> "none", offset |-> 0, name |-> <<>>, type |-> <<>>]
    /\ called = {}

\* the first frame of a call
Enter(fn, offset, name, type) ==
    /\ status = "idle"
    /\ stack' = <<NewFrame(fn, offset, name, type)>>
    /\ status' = "running"
    /\ entry' = [fn |-> fn, offset |-> offset, name |-> name, type |-> type]
    /\ called' = {fn}
    /\ UNCHANGED <<file, ret>>

\* new TPLReader(path).readTpl() on the buffer
CallReadTpl == Enter("readTpl", 0, <<>>, <<>>)

\* validateTplHeader(file, offset)
CallValidateTplHeader ==
    \E offset \in 0..MaxPad : Enter("validateTplHeader", offset, <<>>, <<>>)

\* moveToToolDataSection(file)
CallMoveToToolDataSection == Enter("moveToToolDataSection", 0, <<>>, <<>>)

\* the decode steps utils.ts exports that take (file, offset)
StepFunctions ==
    { "extractLabel", "extractProperty", "extractText", "extractBoolean", "extractEnum",
      "extractDouble", "extractUnitFloat", "extractInteger", "extractLargeInteger",
      "extractList" }

\* a decode step called on a short buffer at any offset
CallStep ==
    /\ file \in FragmentFiles
    /\ \E fn \in StepFunctions, offset \in 0..(Len(file) + MaxPad) :
          Enter(fn, offset, <<>>, <<>>)

\* the decode steps that take a name, a type or a prefix as well
CallNamedStep ==
    /\ file \in FragmentFiles
    /\ \E offset \in 0..(Len(file) + MaxPad) :
          \/ \E name \in { <<48>>, L_SpNull } :
                Enter("extractPropertyValue", offset, name, <<>>)
          \/ \E name \in { s_Grad, L_a } :
                Enter("extractObjectClass", offset, name, <<>>)
          \/ \E prefix \in { <<>>, L_a } :
                Enter("extractUntilPlaceholder", offset, prefix, <<>>)
          \/ \E type \in { s_long, s_tdta, L_xxxx } :
                Enter("extractOsTypeValue", offset, L_a, type)

Next ==
    \/ CallReadTpl
    \/ CallValidateTplHeader
    \/ CallMoveToToolDataSection
    \/ CallStep
    \/ CallNamedStep
    \/ ExtractLabel
    \/ ExtractBoolean
    \/ ExtractEnum
    \/ ExtractDouble
    \/ ExtractUnitFloat
    \/ ExtractInteger
    \/ ExtractLargeInteger
    \/ ValidateTplHeader
    \/ MoveToToolDataSection
    \/ ExtractProperty_Start
    \/ ExtractProperty_Label
    \/ ExtractProperty_Value
    \/ ExtractPropertyValue_Start
    \/ ExtractPropertyValue_Wrap
    \/ ExtractOsTypeValue_Start
    \/ ExtractOsTypeValue_Handler
    \/ ExtractOsTypeValue_Scan
    \/ ExtractOsTypeValue_Again
    \/ ExtractUntilPlaceholder_Step
    \/ ExtractObjectClass_Start
    \/ ExtractObjectClass_Grad
    \/ ExtractObjectClass_Label
    \/ ExtractObjectClass_Loop
    \/ ExtractObjectClass_Prop
    \/ ExtractText_Start
    \/ ExtractText_Loop
    \/ ExtractText_Prop
    \/ ExtractList_Start
    \/ ExtractList_Loop
    \/ ExtractList_Elem
    \/ ReadTool_Start
    \/ ReadTool_Name
    \/ ReadTool_Type
    \/ ReadTool_Props
    \/ ReadTool_Prop
    \/ ReadTpl_Start
    \/ ReadTpl_Valid
    \/ ReadTpl_Moved
    \/ ReadTpl_Tools

Spec == Init /\ [][Next]_vars

---------------------------------------------------------------------------
(* What the properties below speak of *)

\* the start positions of the marker "8BIMtptp" in a buffer
MarkerPositions(f) ==
    { p \in 0..(Len(f) - 8) : \A k \in 1..8 : f[p + k] = s_8BIMtptp[k] }

\* two byte sequences are equal when upper and lower case letters are
FoldCase(b) == IF b >= 65 /\ b <= 90 THEN b + 32 ELSE b
SameIgnoringCase(bytes, text) ==
    /\ Len(bytes) = Len(text)
    /\ \A k \in 1..Len(text) : FoldCase(bytes[k]) = FoldCase(text[k])

\* bytes 0..3 are "8btp" and bytes 12..15 are "8bim", in any case
SignaturesMatch(f) ==
    /\ Len(f) >= 16
    /\ SameIgnoringCase(SubSeq(f, 1, 4), s_8btp)
    /\ SameIgnoringCase(SubSeq(f, 13, 16), s_8bim)

\* readTpl has returned
Decoded == status = "done" /\ entry.fn = "readTpl"

\* the functions readTpl calls before readTool
LocatorFunctions == { "readTpl", "validateTplHeader", "moveToToolDataSection" }

\* the parameters of the well-formed buffers
WfParams ==
    WfHeaders \X WfMiddles \X WfNames \X WfTypes \X WfProps \X WfValues

WfFile(q) == WellFormed(q[1], q[2], q[3], q[4], q[5], q[6])

\* the name text: the bytes as ASCII text without its null characters
WfNameText(q) == StripNul(Ascii(q[3]))

\* a Document of one type key with one tool of one property
OneToolDocument(key, name, property) ==
    << [key |-> key, tools |-> << [name |-> name, properties |-> << property >>] >>] >>

\* { P: { type: "long", value: v } }
LongProperty(key, v) == << [key |-> key, type |-> s_long, value |-> v] >>

---------------------------------------------------------------------------
(* C1 *)

---------------------------------------------------------------------------
(* C2 *)

\* C2: when header validation fails or the marker is absent, readTpl calls
\* nothing but the two locator functions, does not throw, and what it returns
\* is the empty Document
C2_EmptyWithoutReading ==
    (entry.fn = "readTpl"
        /\ (~validateTplHeader(file, 0).value \/ MarkerPositions(file) = {})) =>
            /\ called \subseteq LocatorFunctions
            /\ status # "threw"
            /\ (status = "done" => ret.value = <<>>)

\* reached: a valid header, no marker, and readTpl has returned {}
C2_Witness ==
    /\ Decoded
    /\ validateTplHeader(file, 0).value
    /\ MarkerPositions(file) = {}
    /\ ret.value = <<>>

---------------------------------------------------------------------------
(* C3 *)

\* C3 as stated: validateTplHeader(file, 0) is valid exactly when bytes 0..3
\* are "8btp" and bytes 12..15 are "8bim" in any case, and then returns 16
C3_ValidIffSignatures ==
    (ret.fn = "validateTplHeader" /\ ret.from = 0) =>
        /\ ret.value <=> SignaturesMatch(file)
        /\ ret.value => ret.offset = 16

---------------------------------------------------------------------------
(* C4 *)

\* C4: moveToToolDataSection finds nothing exactly when the marker is
\* nowhere, and otherwise returns 16 past the greatest marker position
C4_LastMarkerSelected ==
    ret.fn = "moveToToolDataSection" =>
        IF MarkerPositions(file) = {}
        THEN ret.value = FALSE
        ELSE /\ ret.value = TRUE
             /\ ret.offset - 16 \in MarkerPositions(file)
             /\ \A p \in MarkerPositions(file) : p <= ret.offset - 16

\* reached: a buffer with the marker at two positions or more
C4_Witness ==
    /\ ret.fn = "moveToToolDataSection"
    /\ Cardinality(MarkerPositions(file)) >= 2
    /\ ret.value = TRUE

---------------------------------------------------------------------------
(* C5 *)

\* C5 as stated: no property that extractProperty returns is keyed "null",
\* and on a label that reads "null" it returns {} at the offset just past
\* the label
C5_NoNullKey ==
    ret.fn = "extractProperty" =>
        /\ \A k \in 1..Len(ret.value) : ret.value[k].key # s_null
        /\ Ascii(extractLabel(file, ret.from).value) = s_null =>
              /\ ret.value = <<>>
              /\ ret.offset = extractLabel(file, ret.from).offset

---------------------------------------------------------------------------
(* C6 *)

\* the 4 bytes of a length prefix are inside the buffer
PrefixInside(f, offset) == offset # NaN /\ offset + 4 <= Len(f)

\* C6 as stated: with a length prefix of 0 extractLabel returns 4 bytes and
\* the offset moved by 8; with a prefix L it returns L bytes and the offset
\* moved by 4 + L
C6_LabelLength ==
    (ret.fn = "extractLabel" /\ PrefixInside(file, ret.from)) =>
        LET L == HexValue(SubSeq(file, ret.from + 1, ret.from + 4))
        IN  IF L = 0
            THEN Len(ret.value) = 4 /\ ret.offset = ret.from + 8
            ELSE Len(ret.value) = L /\ ret.offset = Add(ret.from + 4, L)

---------------------------------------------------------------------------
(* C7 *)

\* the primitive, label and text decode steps
CursorSteps ==
    { "extractBoolean", "extractInteger", "extractLargeInteger", "extractDouble",
      "extractUnitFloat", "extractEnum", "extractLabel", "extractText" }

\* C7 as stated: a decode step that returns, returns an offset strictly
\* greater than the one it was given
C7_CursorAdvances ==
    (ret.fn \in CursorSteps /\ ret.from # NaN) =>
        /\ ret.offset # NaN
        /\ ret.offset > ret.from

---------------------------------------------------------------------------
(* C8 *)

\* C8 as stated: during readTpl every cursor from the section locator on is
\* a number that is at most the length of the buffer
C8_CursorWithinBuffer ==
    entry.fn = "readTpl" =>
        \A k \in 1..Len(stack) :
            stack[k].fn \notin LocatorFunctions =>
                /\ stack[k].offset # NaN
                /\ stack[k].offset <= Len(file)

---------------------------------------------------------------------------
(* C9 *)

\* C9 as stated: a scan that started inside the buffer never moves past its
\* end: it has returned or signalled an error by then
C9_ScanStopsAtEnd ==
    \A k \in 1..Len(stack) :
        (stack[k].fn = "extractUntilPlaceholder" /\ stack[k].from <= Len(file)) =>
            stack[k].offset <= Len(file)

---------------------------------------------------------------------------
(* C10 *)

\* the placeholders as a set
PlaceholderSet == { placeholders[k] : k \in 1..Len(placeholders) }

\* C10 as stated: the tag the scan returns is the placeholder the text ends
\* with and the name is the text before it; extractOsTypeValue is entered
\* again with that name and tag
C10_ScanSplitsAtPlaceholder ==
    /\ ret.fn = "extractUntilPlaceholder" =>
          /\ ret.value.type \in PlaceholderSet
          /\ \A p \in PlaceholderSet :
                Len(p) > Len(ret.value.type) => ~EndsWith(ret.value.name \o ret.value.type, p)
    /\ (Len(stack) >= 2 /\ At("extractOsTypeValue", "start")
            /\ stack[Len(stack) - 1].fn = "extractOsTypeValue"
            /\ stack[Len(stack) - 1].pc = "again") =>
          /\ Top.name = ret.value.name
          /\ Top.type = ret.value.type

---------------------------------------------------------------------------
\* C11: extractList called on a buffer that holds its 4-byte count N returns
\* a sequence of exactly N entries, none of them undefined, whatever the
\* tags of the elements are (unsupported and scan-recovered tags included).
C11_ListEntriesDefined ==
    ( /\ status = "done"
      /\ entry.fn = "extractList"
      /\ ret.fn = "extractList"
      /\ entry.offset + 4 <= Len(file) )
    => LET N == ParseHex(Subarray(file, entry.offset, entry.offset + 4))
       IN  /\ Len(ret.value) = N
           /\ \A i \in 1..Len(ret.value) : ret.value[i] # <<>>

\* the number of zero bytes of a byte sequence
RECURSIVE ZeroBytes(_)
ZeroBytes(bytes) ==
    IF Len(bytes) = 0 THEN 0
    ELSE (IF bytes[1] = 0 THEN 1 ELSE 0) + ZeroBytes(Tail(bytes))

\* C12: in extractText, a nonzero length L read again after an embedded
\* property, with its 2*L bytes inside the buffer, is kept if and only if
\* the number of zero bytes among those 2*L bytes is L + 1; otherwise the
\* length becomes 0 and the cursor stays just past the length field.
C12_GenuineIffZeroBytes ==
    [][ ExtractText_Prop =>
          LET L == ParseHex(Subarray(file, ret.offset, Add(ret.offset, 4)))
              offset == Add(ret.offset, 4)
              self == stack'[Len(stack')]
          IN  ( /\ ret.offset # NaN
                /\ L # NaN
                /\ L # 0
                /\ offset + 2 * L <= Len(file) )
              => /\ self.offset = offset
                 /\ (self.length = L) <=>
                      (ZeroBytes(Subarray(file, offset, offset + 2 * L)) = L + 1)
                 /\ self.length # L => self.length = 0 ]_vars

---------------------------------------------------------------------------
\* 4 bytes of the buffer lie at offset .. offset + 3
FourBytesRemain(f, offset) == offset # NaN /\ offset + 4 <= Len(f)

\* the property lists the first tool of a two-tool buffer is written with
TwoToolProps ==
    { <<>>, <<P_long, P_bool>>, <<P_null, P_tdta>>, <<P_objc>>, <<P_list>>,
      <<P_indirect>>, <<P_scanNull>>, <<P_enum, P_text>> }

\* header, section start, a tool "D=M" of type Brsh with the properties
\* props, a tool "a=" of type T with one property, and a tail
TwoToolFile(props, T, tail) ==
    ValidHeader \o Section
      \o ToolRecord(TextField(L_DeqM), LabelField(L_Brsh, FALSE), props)
      \o ToolRecord(TextField(L_aeq), LabelField(T, FALSE), <<P_long>>) \o tail

\* readTool is at the end of a record: the properties are read and the type
\* key exists, so the tool is appended next
RecordDecoded ==
    /\ At("readTool", "props")
    /\ ~(Top.count # NaN /\ Top.i < Top.count)
    /\ HasOwnKey(Top.tpl, Top.type)

\* the document decoded from a two-tool buffer: both tools in buffer order,
\* each with as many properties as its count
TwoToolsInOrder(doc, props, T) ==
    LET first(tool) == tool.name = <<77>> /\ Len(tool.properties) = Len(props)
        second(tool) == tool.name = <<>> /\ Len(tool.properties) = 1
    IN  IF T = L_Brsh
        THEN /\ Len(doc) = 1
             /\ doc[1].key = L_Brsh
             /\ Len(doc[1].tools) = 2
             /\ first(doc[1].tools[1])
             /\ second(doc[1].tools[2])
        ELSE /\ Len(doc) = 2
             /\ doc[1].key = L_Brsh /\ Len(doc[1].tools) = 1 /\ first(doc[1].tools[1])
             /\ doc[2].key = T /\ Len(doc[2].tools) = 1 /\ second(doc[2].tools[1])

\* C13: after a record is decoded readTool appends it behind the records of
\* its type, with as many properties as its count, and then returns if 4
\* bytes do not remain from the offset and decodes another record
\* otherwise; so when readTool has returned 4 bytes do not remain from the
\* final offset, and a buffer of two tools decodes to both, in buffer order.
C13_IteratorRule ==
    /\ [](ret.fn = "readTool" => ~FourBytesRemain(file, ret.offset))
    /\ [](Decoded =>
             \A props \in TwoToolProps, T \in {L_Brsh, L_B}, tail \in {<<>>, <<0, 0>>} :
                file = TwoToolFile(props, T, tail) => TwoToolsInOrder(ret.value, props, T))
    /\ [][ RecordDecoded =>
             LET more == FourBytesRemain(file, Top.offset)
                 out == IF more THEN stack'[Len(stack)].tpl ELSE ret'.value
             IN  /\ more => /\ Len(stack') = Len(stack)
                            /\ stack'[Len(stack)].pc = "start"
                            /\ stack'[Len(stack)].offset = Top.offset
                 /\ ~more => /\ Len(stack') = Len(stack) - 1
                             /\ ret'.fn = "readTool"
                             /\ ret'.offset = Top.offset
                 /\ Len(out) = Len(Top.tpl)
                 /\ \A j \in 1..Len(out) :
                       /\ out[j].key = Top.tpl[j].key
                       /\ IF out[j].key = Top.type
                          THEN /\ Len(out[j].tools) = Len(Top.tpl[j].tools) + 1
                               /\ SubSeq(out[j].tools, 1, Len(Top.tpl[j].tools)) = Top.tpl[j].tools
                               /\ Top.count # NaN =>
                                     Len(out[j].tools[Len(out[j].tools)].properties) = Top.count
                          ELSE out[j].tools = Top.tpl[j].tools ]_vars

\* readTool has returned two records under one type key, the first with two
\* properties, and 2 bytes remained from the final offset
C13_Witness ==
    /\ ret.fn = "readTool"
    /\ ret.offset # NaN
    /\ Len(file) - ret.offset = 2
    /\ \E j \in 1..Len(ret.value) :
          /\ Len(ret.value[j].tools) = 2
          /\ Len(ret.value[j].tools[1].properties) = 2

---------------------------------------------------------------------------
\* header validation succeeds and the buffer holds a marker
Located(f) == validateTplHeader(f, 0).value /\ MarkerPositions(f) # {}

\* C14: when readTpl returns, the document is empty if and only if the
\* header is not valid or no marker is found; otherwise it has a type key
\* that holds a tool record, also when no bytes follow the section start.
C14_EmptyIffNotLocated ==
    Decoded =>
        /\ (ret.value = <<>>) <=> ~Located(file)
        /\ Located(file) =>
              \E j \in 1..Len(ret.value) : Len(ret.value[j].tools) >= 1

\* readTpl has returned a document with a record for a buffer that ends at
\* the section start
C14_Witness ==
    /\ Decoded
    /\ file = ValidHeader \o Section
    /\ Len(ret.value) >= 1
    /\ Len(ret.value[1].tools) >= 1

====
